---- MODULE Spec2Model ----
(***************************************************************************)
(* Model of the cbn-data retention tooling: the retention policy engine    *)
(* (applyRetentionPolicy in prune-data.mjs with getBuildDate and toDayKey) *)
(* and the prune runner around it (run in prune-data.mjs, GitHubHelper in  *)
(* lib.mjs).                                                               *)
(*                                                                         *)
(* Time.  The code counts time in milliseconds since the epoch.  Here one  *)
(* unit of time is one hour, so that day keys of real dates fit TLC's      *)
(* integers: ONE_DAY, 1000*60*60*24 ms in the code, is 24 units.  Every    *)
(* timestamp of the model is a whole number of hours.                      *)
(***************************************************************************)
EXTENDS Integers, Sequences, FiniteSets, TLC

VARIABLES
    builds,       \* the build list handed to applyRetentionPolicy
    now,          \* the `now` argument of the latest call
    clock,        \* the wall clock (what `new Date()` would return)
    kept,         \* result.kept of the latest call
    removed,      \* result.removed of the latest call
    calls,        \* number of calls made so far, counted up to 2
    prevNow,      \* `now` of the call before the latest
    prevKept,     \* result.kept of the call before the latest
    prevRemoved,  \* result.removed of the call before the latest
    threw,        \* the latest call ended in an exception
    dryRun,       \* the dryRun argument of the prune run
    pc,           \* where the prune run stands
    head,         \* the commit that ref heads/main points at
    commits,      \* the commits of the repository, by sha
    requests,     \* the mutating requests sent to the API so far
    reads,        \* the reading requests sent so far, each with the sha it named
    failures,     \* the requests answered with an error so far
    attempt,      \* the state of the retry helper: its loop index, calls and waits
    workspace,    \* the files of the workspace directory of the pull and postprocess runs
    env,          \* what a run finds outside: the upstream releases, GITHUB_TOKEN
    locals        \* the local constants of run() and helper.blobs

engineVars == <<builds, now, kept, removed, calls, prevNow, prevKept, prevRemoved, threw>>
runVars == <<dryRun, pc, head, commits, requests, reads, failures, attempt, locals,
            workspace, env>>
vars == <<builds, now, clock, kept, removed, calls, prevNow, prevKept, prevRemoved,
          threw, dryRun, pc, head, commits, requests, reads, failures, attempt, locals,
          workspace, env>>

----------------------------------------------------------------------------
(* Program constants *)

\* const ONE_DAY = 1000 * 60 * 60 * 24 (ms); 24 in the model's unit, the hour.
ONE_DAY == 24

\* async retry(fn, retries = 10)
DefaultRetries == 10

(* Bounds of the model *)

\* Longest build list drawn in Init.
MaxBuilds == 2
\* How many days the wall clock may advance after Init.
MaxDays == 2
\* UTC day key of the wall clock in Init; 20003 = 3 (mod 8).
NowDay0 == 20003

----------------------------------------------------------------------------
(* JavaScript values *)

Max(a, b) == IF a >= b THEN a ELSE b

\* A created_at value: absent, the empty string, a string Date cannot parse,
\* or an ISO-8601 string "YYYY-MM-DDTHH:00:00Z" given by its UTC day and hour.
CreatedAbsent == [kind |-> "absent", day |-> 0, hour |-> 0]
CreatedEmpty == [kind |-> "empty", day |-> 0, hour |-> 0]
CreatedInvalid == [kind |-> "invalid", day |-> 0, hour |-> 0]
CreatedIso(d, h) == [kind |-> "iso", day |-> d, hour |-> h]

\* A build_number value: a string that starts with the valid date of UTC day
\* `day` ("dated"), a string with no leading YYYY-MM-DD ("plain", such as
\* "experimental-foo"); `suffix` is the rest of the string.
NumberDated(d, s) == [kind |-> "dated", day |-> d, suffix |-> s]
NumberPlain(s) == [kind |-> "plain", day |-> 0, suffix |-> s]
\* A string that starts with digits in the shape of a date that is none, such
\* as "2024-13-45" ("baddate"); a value that is no string, such as the number
\* 7 ("number"); no build_number field at all ("absent").
NumberBadDate(s) == [kind |-> "baddate", day |-> 0, suffix |-> s]
NumberNotString == [kind |-> "number", day |-> 0, suffix |-> "7"]
NumberAbsent == [kind |-> "absent", day |-> 0, suffix |-> ""]

\* new Date(value): a Date whose time value is NaN unless the string parses.
InvalidDate == [valid |-> FALSE, time |-> 0]
NewDate(createdAt) ==
    IF createdAt.kind = "iso"
    THEN [valid |-> TRUE, time |-> createdAt.day * 24 + createdAt.hour]
    ELSE InvalidDate

\* build_number.match(/^(\d{4}-\d{2}-\d{2})/) followed by
\* new Date(`${match[1]}T00:00:00Z`): UTC midnight of the leading date.
MatchesDatePrefix(buildNumber) == buildNumber.kind \in {"dated", "baddate"}
NewDateAtMidnight(buildNumber) ==
    IF buildNumber.kind = "dated"
    THEN [valid |-> TRUE, time |-> buildNumber.day * 24]
    ELSE InvalidDate

\* Fault: the typeof test is left out.
TypeofString_any(value) == TRUE

\* typeof value === "string"
TypeofString(value) == value.kind \in {"dated", "baddate", "plain"}

\* value.match is a function: true of strings; calling it on a number or on
\* undefined raises a TypeError.
HasMatchMethod(value) == value.kind \in {"dated", "baddate", "plain"}

Null == [isNull |-> TRUE, time |-> 0]

\* The retry helper before a call of it: the loop index i, the calls of fn
\* made, whether one is under way, the waits so far (ms) and how it ended.
\* The .json files of a build directory.
JsonFiles == {"all.json", "all_mods.json", "lang/en.json"}

\* No symlink at data/stable or data/nightly.
NoLink == [kind |-> "none", day |-> 0, suffix |-> ""]

\* An empty workspace: no builds.json, no build files, no symlinks; the
\* .json files of the build directory at hand uncompressed, no marker.
NoWorkspace ==
    [builds |-> [present |-> FALSE, text |-> Null],
     files |-> {},
     links |-> [stable |-> NoLink, nightly |-> NoLink],
     json |-> [f \in JsonFiles |-> 0],
     marker |-> FALSE]

NoEnv == [releases |-> <<>>, token |-> "unset"]

NoAttempt ==
    [retries |-> DefaultRetries, i |-> 0, calls |-> 0, inflight |-> FALSE,
     waits |-> <<>>, outcome |-> "idle"]

\* Fault: the loop runs once more, for i = retries too.
LoopContinues_inclusive(i, retries) == i <= retries

\* for (let i = 0; i < retries; i++)
LoopContinues(i, retries) == i < retries

\* setTimeout(r, 1000 * i)
Backoff(i) == 1000 * i
DateOf(t) == [isNull |-> FALSE, time |-> t]

----------------------------------------------------------------------------
(* prune-data.mjs: getBuildDate, toDayKey *)

\* Fault: the leading date of build_number is tried before created_at.
getBuildDate_numberFirst(build) ==
    IF /\ TypeofString(build.build_number)
       /\ MatchesDatePrefix(build.build_number)
       /\ NewDateAtMidnight(build.build_number).valid
    THEN DateOf(NewDateAtMidnight(build.build_number).time)
    ELSE IF build.created_at.kind \notin {"absent", "empty"} /\ NewDate(build.created_at).valid
         THEN DateOf(NewDate(build.created_at).time)
         ELSE Null

\* Fault: a record without a date gets the epoch instead of null.
getBuildDate_epoch(build) ==
    IF build.created_at.kind \notin {"absent", "empty"} /\ NewDate(build.created_at).valid
    THEN DateOf(NewDate(build.created_at).time)
    ELSE IF /\ TypeofString(build.build_number)
            /\ MatchesDatePrefix(build.build_number)
            /\ NewDateAtMidnight(build.build_number).valid
         THEN DateOf(NewDateAtMidnight(build.build_number).time)
         ELSE DateOf(0)

getBuildDate(build) ==
    IF build.created_at.kind \notin {"absent", "empty"} /\ NewDate(build.created_at).valid
    THEN DateOf(NewDate(build.created_at).time)
    ELSE IF /\ TypeofString(build.build_number)
            /\ MatchesDatePrefix(build.build_number)
            /\ NewDateAtMidnight(build.build_number).valid
         THEN DateOf(NewDateAtMidnight(build.build_number).time)
         ELSE Null

\* getBuildDate(build) raises an exception: the one call that can is
\* build.build_number.match(...), reached when created_at gave no date.
getBuildDateThrows(build) ==
    /\ ~(build.created_at.kind \notin {"absent", "empty"} /\ NewDate(build.created_at).valid)
    /\ TypeofString(build.build_number)
    /\ ~HasMatchMethod(build.build_number)

\* Date.UTC(year, month, date of `date`): the UTC midnight at or before it.
UTCMidnight(date) == (date \div 24) * 24

toDayKey(date, dayMs) == UTCMidnight(date) \div dayMs

----------------------------------------------------------------------------
(* prune-data.mjs: applyRetentionPolicy *)

Range(s) == {s[i] : i \in 1..Len(s)}

RECURSIVE SortAscending(_)
\* [...buildsByDay.keys()].sort((a, b) => a - b)
SortAscending(S) ==
    IF S = {} THEN <<>>
    ELSE LET m == CHOOSE x \in S : \A y \in S : x <= y
         IN <<m>> \o SortAscending(S \ {m})

\* Fault: the sort is not stable; of two entries with one timestamp the later
\* one of the input comes first.
InsertDescending_unstable(sorted, entry) ==
    LET before == SelectSeq(sorted, LAMBDA e : e.timestamp > entry.timestamp)
        after == SelectSeq(sorted, LAMBDA e : e.timestamp <= entry.timestamp)
    IN before \o <<entry>> \o after

\* Place of `entry` in a list already sorted by timestamp descending: behind
\* every entry that is not earlier than it (Array.prototype.sort is stable).
InsertDescending(sorted, entry) ==
    LET before == SelectSeq(sorted, LAMBDA e : e.timestamp >= entry.timestamp)
        after == SelectSeq(sorted, LAMBDA e : e.timestamp < entry.timestamp)
    IN before \o <<entry>> \o after

RECURSIVE SortDescending(_, _)
\* dailyBuilds.sort((a, b) => b.timestamp - a.timestamp)
SortDescending(entries, i) ==
    IF i = 0 THEN <<>>
    ELSE InsertDescending(SortDescending(entries, i - 1), entries[i])

EntryBuilds(entries) == [i \in 1..Len(entries) |-> entries[i].build]

\* Fault: the stable-release rule is left out.
IsStable_never(b) == FALSE

\* if (!b.prerelease)
IsStable(b) == ~b.prerelease

\* const ageDays = Math.max(0, nowDayKey - buildDayKey); const day = Math.max(0, ageDays)
AgeDays(nowDayKey, buildDayKey) == Max(0, Max(0, nowDayKey - buildDayKey))

RECURSIVE GroupBuilds(_, _, _, _)
\* The first loop: stable and undated builds go to kept, every other build
\* into the group of its build day.  st = [kept, buildsWithoutDate, buildsByDay].
GroupBuilds(bs, nowDayKey, i, st) ==
    IF i > Len(bs) THEN st
    ELSE LET b == bs[i]
             buildDate == getBuildDate(b)
         IN IF IsStable(b)
            THEN GroupBuilds(bs, nowDayKey, i + 1, [st EXCEPT !.kept = Append(@, b)])
            ELSE IF buildDate.isNull
            THEN GroupBuilds(bs, nowDayKey, i + 1,
                     [st EXCEPT !.kept = Append(@, b),
                                !.buildsWithoutDate = Append(@, b)])
            ELSE LET buildDayKey == toDayKey(buildDate.time, ONE_DAY)
                     day == AgeDays(nowDayKey, buildDayKey)
                     byDay == st.buildsByDay
                     withKey == IF buildDayKey \in DOMAIN byDay
                                THEN byDay
                                ELSE byDay @@ (buildDayKey :> [day |-> day, builds |-> <<>>])
                     entry == [build |-> b, timestamp |-> buildDate.time]
                 IN GroupBuilds(bs, nowDayKey, i + 1,
                        [st EXCEPT !.buildsByDay =
                            [withKey EXCEPT ![buildDayKey].builds = Append(@, entry)]])

\* Fault: the modulus is taken of the age, not of the day key.
KeepLatest_byAge(day, dayKey) ==
    \/ day >= 30 /\ day < 90 /\ day % 2 = 0
    \/ day >= 90 /\ day < 210 /\ day % 4 = 0
    \/ day >= 210 /\ day < 450 /\ day % 8 = 0

\* Fault: the last band has no upper end at 450 days.
KeepLatest_noCutoff(day, dayKey) ==
    \/ day >= 30 /\ day < 90 /\ dayKey % 2 = 0
    \/ day >= 90 /\ day < 210 /\ dayKey % 4 = 0
    \/ day >= 210 /\ dayKey % 8 = 0

\* Rules 3 to 6, for a day group with day >= 30: is latestInDay kept?
KeepLatest(day, dayKey) ==
    \/ day >= 30 /\ day < 90 /\ dayKey % 2 = 0
    \/ day >= 90 /\ day < 210 /\ dayKey % 4 = 0
    \/ day >= 210 /\ day < 450 /\ dayKey % 8 = 0

\* Fault: the recency window ends a day early.
KeepsWholeDay_29(day) == day < 29

\* Rule 2: if (day < 30)
KeepsWholeDay(day) == day < 30

\* Fault: the extras are pushed without their langs field.
ApplyDayRules_entries(out, dayKey, group) ==
    LET dailyBuilds == SortDescending(group.builds, Len(group.builds))
        latestInDay == dailyBuilds[1]
        rest == SubSeq(dailyBuilds, 2, Len(dailyBuilds))
    IN IF KeepsWholeDay(group.day)
       THEN [out EXCEPT !.kept = @ \o EntryBuilds(dailyBuilds)]
       ELSE IF KeepLatest(group.day, dayKey)
            THEN [kept |-> Append(out.kept, latestInDay.build),
                  removed |-> out.removed \o
                      [i \in 1..Len(rest) |-> [rest[i].build EXCEPT !.langs = <<>>]]]
            ELSE [kept |-> out.kept,
                  removed |-> (out.removed \o
                      [i \in 1..Len(rest) |-> [rest[i].build EXCEPT !.langs = <<>>]])
                      \o <<latestInDay.build>>]

\* Fault: on a kept day the whole group is kept, not its latest build alone.
ApplyDayRules_keepDay(out, dayKey, group) ==
    LET dailyBuilds == SortDescending(group.builds, Len(group.builds))
        latestInDay == dailyBuilds[1].build
        rest == EntryBuilds(SubSeq(dailyBuilds, 2, Len(dailyBuilds)))
    IN IF KeepsWholeDay(group.day)
       THEN [out EXCEPT !.kept = @ \o EntryBuilds(dailyBuilds)]
       ELSE IF KeepLatest(group.day, dayKey)
            THEN [out EXCEPT !.kept = @ \o EntryBuilds(dailyBuilds)]
            ELSE [kept |-> out.kept,
                  removed |-> Append(out.removed \o rest, latestInDay)]

\* Fault: the extras are pushed to removed before rule 2 is tried.
ApplyDayRules_restFirst(out, dayKey, group) ==
    LET dailyBuilds == SortDescending(group.builds, Len(group.builds))
        latestInDay == dailyBuilds[1].build
        rest == EntryBuilds(SubSeq(dailyBuilds, 2, Len(dailyBuilds)))
        out1 == [out EXCEPT !.removed = @ \o rest]
    IN IF KeepsWholeDay(group.day)
       THEN [out1 EXCEPT !.kept = @ \o EntryBuilds(dailyBuilds)]
       ELSE IF KeepLatest(group.day, dayKey)
            THEN [out1 EXCEPT !.kept = Append(@, latestInDay)]
            ELSE [out1 EXCEPT !.removed = Append(@, latestInDay)]

\* The body of the second loop for one day group; out = [kept, removed].
ApplyDayRules(out, dayKey, group) ==
    LET dailyBuilds == SortDescending(group.builds, Len(group.builds))
        latestInDay == dailyBuilds[1].build
        rest == EntryBuilds(SubSeq(dailyBuilds, 2, Len(dailyBuilds)))
    IN IF KeepsWholeDay(group.day)
       THEN [out EXCEPT !.kept = @ \o EntryBuilds(dailyBuilds)]
       ELSE IF KeepLatest(group.day, dayKey)
            THEN [kept |-> Append(out.kept, latestInDay),
                  removed |-> out.removed \o rest]
            ELSE [kept |-> out.kept,
                  removed |-> Append(out.removed \o rest, latestInDay)]

RECURSIVE ApplyRules(_, _, _, _)
\* for (const dayKey of days) { ... }
ApplyRules(days, buildsByDay, i, out) ==
    IF i > Len(days) THEN out
    ELSE ApplyRules(days, buildsByDay, i + 1,
             ApplyDayRules(out, days[i], buildsByDay[days[i]]))

\* Fault: the day of the wall clock is used, not that of the argument.
applyRetentionPolicy_wallClock(bs, n) ==
    LET nowDayKey == toDayKey(clock, ONE_DAY)
        st == GroupBuilds(bs, nowDayKey, 1,
                  [kept |-> <<>>, buildsWithoutDate |-> <<>>, buildsByDay |-> <<>>])
        days == SortAscending(DOMAIN st.buildsByDay)
    IN ApplyRules(days, st.buildsByDay, 1, [kept |-> st.kept, removed |-> <<>>])

applyRetentionPolicy(bs, n) ==
    LET nowDayKey == toDayKey(n, ONE_DAY)
        st == GroupBuilds(bs, nowDayKey, 1,
                  [kept |-> <<>>, buildsWithoutDate |-> <<>>, buildsByDay |-> <<>>])
        days == SortAscending(DOMAIN st.buildsByDay)
    IN ApplyRules(days, st.buildsByDay, 1, [kept |-> st.kept, removed |-> <<>>])

\* applyRetentionPolicy(bs, n) raises an exception: getBuildDate does, for a
\* build the first loop passes to it (a stable build is pushed before).
applyRetentionPolicyThrows(bs) ==
    \E i \in 1..Len(bs) : ~IsStable(bs[i]) /\ getBuildDateThrows(bs[i])

----------------------------------------------------------------------------
(* The inputs the engine is run on *)

Min(a, b) == IF a <= b THEN a ELSE b

\* Ages, in UTC days on day NowDay0, of the build days drawn: a future day,
\* today, and days in and at the edges of each band (30, 90, 210, 450).
\* With NowDay0 = 3 (mod 8) the day keys of ages 29, 91, 211 are multiples of
\* 2, 8, 8, that of age 451 too; that of age 89 is 2 (mod 4); those of ages
\* 28, 30, 450 are odd.
Ages == {-1, 0, 28, 29, 30, 89, 91, 207, 211, 449, 450, 451}
\* Days that get two builds, at different hours.
TwoBuildAges == {0, 29, 30, 450}
NowHours == {0, 12}

Build(number, prerelease, createdAt, langs) ==
    [build_number |-> number, prerelease |-> prerelease,
     created_at |-> createdAt, langs |-> langs]

\* A nightly build as the release feed lists it: build_number is its date.
Nightly(d, h, suffix) == Build(NumberDated(d, suffix), TRUE, CreatedIso(d, h), <<"en">>)

NightlyPool ==
    {Nightly(NowDay0 - a, 6, "") : a \in Ages}
    \cup {Nightly(NowDay0 - a, 18, "-2") : a \in TwoBuildAges}
\* A third build, with the timestamp of another one of the same day.
TiePool == {Build(NumberDated(NowDay0 - 30, "-3"), TRUE, CreatedIso(NowDay0 - 30, 18), <<"en", "ru">>)}
StablePool ==
    {Build(NumberPlain("v0.1"), FALSE, CreatedIso(NowDay0 - 450, 6), <<"en">>),
     Build(NumberPlain("v0.2"), FALSE, CreatedAbsent, <<"en">>)}
UndatedPool ==
    {Build(NumberPlain("experimental-foo"), TRUE, c, <<"en">>) : c \in {CreatedAbsent, CreatedInvalid}}
\* No usable created_at: the date comes from build_number.
FallbackPool ==
    {Build(NumberDated(NowDay0 - a, ""), TRUE, CreatedAbsent, <<"en">>) : a \in {30, 450}}

BuildPool == NightlyPool \cup TiePool \cup StablePool \cup UndatedPool \cup FallbackPool

\* tests/test-retention.mjs, testParityStability: makeBuild(base, d, `-${d}`)
\* for d = 40..44, base at 12:00 UTC.
makeBuild(base, days, suffix) ==
    LET date == base - days * ONE_DAY
    IN Build(NumberDated(date \div 24, suffix), TRUE, CreatedIso(date \div 24, date % 24), <<>>)
ParityBuilds ==
    LET base == NowDay0 * 24 + 12
    IN <<makeBuild(base, 40, "-40"), makeBuild(base, 41, "-41"), makeBuild(base, 42, "-42"),
         makeBuild(base, 43, "-43"), makeBuild(base, 44, "-44")>>

BuildLists ==
    UNION {[1..n -> BuildPool] : n \in 0..MaxBuilds} \cup {ParityBuilds}

----------------------------------------------------------------------------
(* The repository the prune run works on *)

\* A tree entry of data/: the directory of one build.  The sha stands for
\* the directory's content.
DataItem(buildNumber) == [path |-> buildNumber, sha |-> <<"tree-of", buildNumber>>]

NoTree == [present |-> FALSE, tree |-> {}]
TreeOf(items) == [present |-> TRUE, tree |-> items]

\* A root tree: the builds.json blob, the data/ tree (if any) and the
\* entries beside them.
RootTree(buildsBlob, dataTree, other) ==
    [builds_json |-> buildsBlob, data |-> dataTree, other |-> other]

\* A blob is known by its content: the sha createBlob answers stands for it.
BlobOf(content) == [dry |-> FALSE, content |-> content]
DryRunSha == [dry |-> TRUE, content |-> <<>>]

\* JSON.stringify(keptBuilds), and JSON.parse of a builds.json blob: the
\* list of records with the fields each record has.
Stringify(list) == [json |-> list]
Parse(text) == text.json

NoLocals ==
    [baseCommit |-> 0, existingBuilds |-> <<>>, keptBuilds |-> <<>>,
     removedBuilds |-> <<>>, buildsBlob |-> DryRunSha, blobs |-> <<>>,
     baseTree |-> RootTree(DryRunSha, NoTree, {}), dataTree |-> {},
     newDataTree |-> {}, tree |-> RootTree(DryRunSha, NoTree, {}), commit |-> 0]

----------------------------------------------------------------------------
(* Running the engine *)

Init ==
    /\ builds \in BuildLists
    /\ clock \in {NowDay0 * 24 + h : h \in NowHours}
    /\ now = clock
    /\ kept = <<>>
    /\ removed = <<>>
    /\ calls = 0
    /\ prevNow = now
    /\ prevKept = <<>>
    /\ prevRemoved = <<>>
    /\ threw = FALSE
    /\ dryRun = FALSE
    /\ pc = "idle"
    /\ head = 0
    /\ commits = <<>>
    /\ requests = <<>>
    /\ reads = <<>>
    /\ failures = <<>>
    /\ attempt = NoAttempt
    /\ workspace = NoWorkspace
    /\ env = NoEnv
    /\ locals = NoLocals

\* const result = applyRetentionPolicy(builds, n)
Apply(n) ==
    LET result == applyRetentionPolicy(builds, n)
    IN /\ threw' = applyRetentionPolicyThrows(builds)
       /\ kept' = IF threw' THEN <<>> ELSE result.kept
       /\ removed' = IF threw' THEN <<>> ELSE result.removed
       /\ now' = n
       /\ calls' = Min(calls + 1, 2)
       /\ prevNow' = IF calls >= 1 THEN now ELSE n
       /\ prevKept' = IF calls >= 1 THEN kept ELSE <<>>
       /\ prevRemoved' = IF calls >= 1 THEN removed ELSE <<>>
       /\ UNCHANGED <<builds, clock>>
       /\ UNCHANGED runVars

\* A call with the current time: applyRetentionPolicy(builds, new Date()).
ApplyNow == Apply(clock)

\* A second call with the `now` of the call before, whatever the clock shows
\* (the tests pass a fixed date).
ApplyAgain == calls >= 1 /\ Apply(now)

\* A day passes.
NextDay ==
    /\ clock < (NowDay0 + MaxDays) * 24
    /\ clock' = clock + ONE_DAY
    /\ UNCHANGED engineVars
    /\ UNCHANGED runVars

Next == ApplyNow \/ ApplyAgain \/ NextDay

Spec == Init /\ [][Next]_vars

----------------------------------------------------------------------------
(* prune-data.mjs: run, with lib.mjs: GitHubHelper *)

\* The build lists the repository starts with.
PrunePool ==
    {Nightly(NowDay0 - a, 6, "") : a \in {0, 30, 91, 451}}
    \cup {Nightly(NowDay0 - 30, 18, "-2")}
    \cup StablePool \cup UndatedPool
PruneLists == UNION {[1..n -> PrunePool] : n \in 0..MaxBuilds}

InitialCommit(list, withData) ==
    [tree |-> RootTree(BlobOf(Stringify(list)),
                       IF withData
                       THEN TreeOf({DataItem(list[i].build_number) : i \in 1..Len(list)}
                                   \cup {DataItem(NumberPlain("latest"))})
                       ELSE NoTree,
                       {"README.md"}),
     parents |-> <<>>]

PruneInit ==
    /\ \E list \in PruneLists, withData \in BOOLEAN :
           commits = <<InitialCommit(list, withData)>>
    /\ head = 1
    /\ dryRun \in BOOLEAN
    /\ clock \in {NowDay0 * 24 + h : h \in NowHours}
    /\ pc = "getCommit"
    /\ requests = <<>>
    /\ reads = <<>>
    /\ failures = <<>>
    /\ attempt = NoAttempt
    /\ workspace = NoWorkspace
    /\ env = NoEnv
    /\ locals = NoLocals
    /\ builds = <<>>
    /\ now = clock
    /\ kept = <<>>
    /\ removed = <<>>
    /\ calls = 0
    /\ prevNow = clock
    /\ prevKept = <<>>
    /\ prevRemoved = <<>>
    /\ threw = FALSE

\* helper.getExistingBuilds: github.rest.repos.getCommit({ ref: dataBranch })
GetCommit ==
    /\ pc = "getCommit"
    /\ locals' = [locals EXCEPT !.baseCommit = head]
    /\ pc' = "getContent"
    /\ reads' = Append(reads, [op |-> "getCommit", sha |-> head])
    /\ UNCHANGED <<dryRun, head, commits, requests, clock>>
    /\ UNCHANGED engineVars
    /\ UNCHANGED <<failures, attempt, workspace, env>>

\* helper.getExistingBuilds: getContent({ path: "builds.json", ref: baseCommit.sha })
\* and JSON.parse; then, in run, applyRetentionPolicy(existingBuilds, new Date())
\* and the return when nothing is to be removed.
GetContent ==
    /\ pc = "getContent"
    /\ LET existingBuilds == Parse(commits[locals.baseCommit].tree.builds_json.content)
           result == applyRetentionPolicy(existingBuilds, clock)
       IN /\ locals' = [locals EXCEPT !.existingBuilds = existingBuilds,
                                      !.keptBuilds = result.kept,
                                      !.removedBuilds = result.removed]
          /\ pc' = IF Len(result.removed) = 0 THEN "done" ELSE "createBlob"
    /\ reads' = Append(reads, [op |-> "getContent", sha |-> locals.baseCommit])
    /\ UNCHANGED <<dryRun, head, commits, requests, clock>>
    /\ UNCHANGED engineVars
    /\ UNCHANGED <<failures, attempt, workspace, env>>

\* Fault: the dry-run flag is not looked at.
uploadBlob_always(dry, content) ==
    [sent |-> TRUE, sha |-> BlobOf(content)]

\* GitHubHelper.uploadBlob: no request in a dry run, else createBlob.
uploadBlob(dry, content) ==
    IF dry THEN [sent |-> FALSE, sha |-> DryRunSha]
    ELSE [sent |-> TRUE, sha |-> BlobOf(content)]

\* if (dryRun) { ...; return; }
ReturnsAfterBlob(dry) == dry

\* helper.createBlob("builds.json", JSON.stringify(keptBuilds)), with a
\* createBlob request that is fulfilled within the loop of retry, and the
\* return of a dry run.
CreateBlob ==
    /\ pc = "createBlob"
    /\ dryRun \/ LoopContinues(attempt.i, attempt.retries)
    /\ LET blob == uploadBlob(dryRun, Stringify(locals.keptBuilds))
       IN /\ requests' = IF blob.sent THEN Append(requests, "createBlob") ELSE requests
          /\ locals' = [locals EXCEPT
                 !.buildsBlob = blob.sha,
                 !.blobs = Append(@, [path |-> "builds.json", sha |-> blob.sha])]
    /\ pc' = IF ReturnsAfterBlob(dryRun) THEN "done" ELSE "getRootTree"
    /\ UNCHANGED <<dryRun, head, commits, reads, clock>>
    /\ UNCHANGED engineVars
    /\ UNCHANGED <<failures, attempt, workspace, env>>

\* Fault: the root tree is read from the commit the branch points at now.
GetRootTree_head ==
    /\ pc = "getRootTree"
    /\ LET baseTree == commits[head].tree
       IN /\ locals' = [locals EXCEPT !.baseTree = baseTree]
          /\ pc' = IF baseTree.data.present THEN "getDataTree" ELSE "failed"
    /\ reads' = Append(reads, [op |-> "getTree", sha |-> head])
    /\ UNCHANGED <<dryRun, head, commits, requests, clock>>
    /\ UNCHANGED engineVars
    /\ UNCHANGED <<failures, attempt, workspace, env>>

\* getTree({ tree_sha: baseCommit.commit.tree.sha }) and the search for 'data'.
GetRootTree ==
    /\ pc = "getRootTree"
    /\ LET baseTree == commits[locals.baseCommit].tree
       IN /\ locals' = [locals EXCEPT !.baseTree = baseTree]
          /\ pc' = IF baseTree.data.present THEN "getDataTree" ELSE "failed"
    /\ reads' = Append(reads, [op |-> "getTree", sha |-> locals.baseCommit])
    /\ UNCHANGED <<dryRun, head, commits, requests, clock>>
    /\ UNCHANGED engineVars
    /\ UNCHANGED <<failures, attempt, workspace, env>>

\* Fault: the directory of every listed build is taken for removed.
RemovedBuildNumbers_all(removedBuilds) ==
    {locals.existingBuilds[i].build_number : i \in 1..Len(locals.existingBuilds)}

\* removedBuilds.map((b) => String(b.build_number))
RemovedBuildNumbers(removedBuilds) ==
    {removedBuilds[i].build_number : i \in 1..Len(removedBuilds)}

\* Fault: only the directories of the kept builds stay.
KeptDataItems_keptOnly(dataTree, removedBuilds) ==
    {item \in dataTree :
        \E i \in 1..Len(locals.keptBuilds) : item.path = locals.keptBuilds[i].build_number}

\* dataTree.tree.filter((item) => item.path && !removedBuildNumbers.has(item.path))
KeptDataItems(dataTree, removedBuilds) ==
    {item \in dataTree : item.path \notin RemovedBuildNumbers(removedBuilds)}

\* getTree({ tree_sha: dataEntry.sha })
GetDataTree ==
    /\ pc = "getDataTree"
    /\ locals' = [locals EXCEPT !.dataTree = locals.baseTree.data.tree]
    /\ pc' = "createDataTree"
    /\ reads' = Append(reads, [op |-> "getTree", sha |-> locals.baseCommit])
    /\ UNCHANGED <<dryRun, head, commits, requests, clock>>
    /\ UNCHANGED engineVars
    /\ UNCHANGED <<failures, attempt, workspace, env>>

\* createTree({ tree: keptDataItems })
CreateDataTree ==
    /\ pc = "createDataTree"
    /\ requests' = Append(requests, "createTree")
    /\ locals' = [locals EXCEPT
           !.newDataTree = KeptDataItems(locals.dataTree, locals.removedBuilds)]
    /\ pc' = "createRootTree"
    /\ UNCHANGED <<dryRun, head, commits, reads, clock>>
    /\ UNCHANGED engineVars
    /\ UNCHANGED <<failures, attempt, workspace, env>>

\* createTree({ base_tree: baseTree.sha, tree: [data, builds.json] })
CreateRootTree ==
    /\ pc = "createRootTree"
    /\ requests' = Append(requests, "createTree")
    /\ locals' = [locals EXCEPT
           !.tree = [locals.baseTree EXCEPT !.data = TreeOf(locals.newDataTree),
                                            !.builds_json = locals.buildsBlob]]
    /\ pc' = "createCommit"
    /\ UNCHANGED <<dryRun, head, commits, reads, clock>>
    /\ UNCHANGED engineVars
    /\ UNCHANGED <<failures, attempt, workspace, env>>

\* Fault: the branch is moved to the commit in the step that creates it.
CreateCommit_movesRef ==
    /\ pc = "createCommit"
    /\ requests' = Append(requests, "createCommit")
    /\ commits' = Append(commits, [tree |-> locals.tree, parents |-> <<locals.baseCommit>>])
    /\ locals' = [locals EXCEPT !.commit = Len(commits) + 1]
    /\ head' = Len(commits) + 1
    /\ pc' = "updateRef"
    /\ UNCHANGED <<dryRun, reads, clock>>
    /\ UNCHANGED engineVars
    /\ UNCHANGED <<failures, attempt, workspace, env>>

\* createCommit({ tree: tree.sha, parents: [baseCommit.sha] })
CreateCommit ==
    /\ pc = "createCommit"
    /\ requests' = Append(requests, "createCommit")
    /\ commits' = Append(commits, [tree |-> locals.tree, parents |-> <<locals.baseCommit>>])
    /\ locals' = [locals EXCEPT !.commit = Len(commits) + 1]
    /\ pc' = "updateRef"
    /\ UNCHANGED <<dryRun, head, reads, clock>>
    /\ UNCHANGED engineVars
    /\ UNCHANGED <<failures, attempt, workspace, env>>

\* updateRef({ ref: `heads/${dataBranch}`, sha: commit.sha, force: true })
UpdateRef ==
    /\ pc = "updateRef"
    /\ requests' = Append(requests, "updateRef")
    /\ head' = locals.commit
    /\ pc' = "done"
    /\ UNCHANGED <<dryRun, commits, reads, locals, clock>>
    /\ UNCHANGED engineVars
    /\ UNCHANGED <<failures, attempt, workspace, env>>

\* A request of the run is answered with an error: the run ends with it.
RequestFails ==
    /\ \/ pc \in {"getCommit", "getContent", "getRootTree", "getDataTree",
                  "createDataTree", "createRootTree", "createCommit", "updateRef"}
       \/ pc = "createBlob" /\ ~dryRun
    /\ pc' = "failed"
    /\ failures' = Append(failures, pc)
    /\ UNCHANGED <<dryRun, head, commits, requests, reads, locals, clock, attempt,
                   workspace, env>>
    /\ UNCHANGED engineVars

PruneNext ==
    \/ GetCommit \/ GetContent \/ CreateBlob \/ GetRootTree \/ GetDataTree
    \/ CreateDataTree \/ CreateRootTree \/ CreateCommit \/ UpdateRef
    \/ RequestFails

PruneSpec == PruneInit /\ [][PruneNext]_vars

----------------------------------------------------------------------------
(* The prune run beside another writer of the data branch *)

\* How many commits the other writer pushes.
MaxPushes == 1

\* The build the other writer adds.
PushedBuild == Nightly(NowDay0, 18, "-new")

\* Another writer of the branch, such as the workflow that pushes the output
\* of a pull run, adds a commit on top of the head: builds.json with one more
\* build and the build's directory under data/.
OtherPush ==
    /\ Len(commits) - (IF locals.commit = 0 THEN 0 ELSE 1) <= MaxPushes
    /\ LET tree == commits[head].tree
           list == <<PushedBuild>> \o Parse(tree.builds_json.content)
       IN commits' = Append(commits,
              [tree |-> [tree EXCEPT
                            !.builds_json = BlobOf(Stringify(list)),
                            !.data = TreeOf(tree.data.tree
                                            \cup {DataItem(PushedBuild.build_number)})],
               parents |-> <<head>>])
    /\ head' = Len(commits) + 1
    /\ UNCHANGED <<dryRun, pc, requests, reads, locals, clock>>
    /\ UNCHANGED engineVars
    /\ UNCHANGED <<failures, attempt, workspace, env>>

ConcurrentNext == PruneNext \/ OtherPush

ConcurrentSpec == PruneInit /\ [][ConcurrentNext]_vars

----------------------------------------------------------------------------
(* Reading a result *)

Count(s, v) == Cardinality({i \in 1..Len(s) : s[i] = v})

\* Every copy of record v of the input is in kept, none in removed.
InKept(v) == Count(kept, v) = Count(builds, v) /\ Count(removed, v) = 0
\* Every copy of record v of the input is in removed, none in kept.
InRemoved(v) == Count(removed, v) = Count(builds, v) /\ Count(kept, v) = 0

Called == calls >= 1
HasDate(v) == ~getBuildDate(v).isNull
BuildDayKey(v) == toDayKey(getBuildDate(v).time, ONE_DAY)
\* max(0, dayKey(n) - dayKey(build))
DayAge(v, n) == Max(0, toDayKey(n, ONE_DAY) - BuildDayKey(v))
\* The age bands: <30, [30,90), [90,210), [210,450), >=450.
Band(d) == IF d < 30 THEN 0 ELSE IF d < 90 THEN 1 ELSE IF d < 210 THEN 2
           ELSE IF d < 450 THEN 3 ELSE 4
BuildNumbers(s) == {s[i].build_number : i \in 1..Len(s)}

----------------------------------------------------------------------------
(* Claims *)

\* C1: after a call, every input record occurs in exactly one of kept and
\* removed exactly as often as in builds: nothing duplicated, nothing
\* invented, and kept.length + removed.length = builds.length.
C1_Partition ==
    Called =>
        /\ Len(kept) + Len(removed) = Len(builds)
        /\ \A v \in Range(builds) \cup Range(kept) \cup Range(removed) :
               Count(kept, v) + Count(removed, v) = Count(builds, v)
        /\ \A v \in Range(builds) :
               Count(builds, v) = 1 => ~(v \in Range(kept) /\ v \in Range(removed))

\* Two equal records of one day aged >= 30: one is kept, the other removed.
C1_Witness ==
    /\ Called
    /\ Len(builds) = 2 /\ builds[1] = builds[2]
    /\ Len(kept) = 1 /\ Len(removed) = 1

\* C2: every record with prerelease = false is in kept, whatever now and its
\* date are.
C2_StableKept ==
    Called => \A v \in Range(builds) : ~v.prerelease => InKept(v)

\* A stable release 450 or more days old was kept.
C2_Witness ==
    /\ Called
    /\ \E v \in Range(builds) :
          ~v.prerelease /\ HasDate(v) /\ DayAge(v, now) >= 450 /\ InKept(v)

\* C3: two runs on the same list, the second one day after the first: every
\* build whose day group is in the same age band on both days has the same
\* status in both; the kept build numbers of the builds aged 40..44 days are
\* the same on both days.
C3_CrossDayStable ==
    (calls = 2 /\ now = prevNow + ONE_DAY) =>
        /\ \A v \in Range(builds) :
               (v.prerelease /\ HasDate(v)
                   /\ Band(DayAge(v, prevNow)) = Band(DayAge(v, now)))
               => /\ Count(kept, v) = Count(prevKept, v)
                  /\ Count(removed, v) = Count(prevRemoved, v)
        /\ builds = ParityBuilds =>
               /\ BuildNumbers(kept) = BuildNumbers(prevKept)
               /\ Len(kept) = Len(prevKept)

\* The parity test's list, run on two consecutive days, thinned on both.
C3_Witness ==
    /\ calls = 2 /\ now = prevNow + ONE_DAY
    /\ builds = ParityBuilds
    /\ kept # <<>> /\ removed # <<>>

\* C4: every prerelease build whose age in UTC days is below 30 is in kept,
\* the extra builds of a day and future-dated builds included.
C4_RecentKept ==
    Called =>
        \A v \in Range(builds) :
            (v.prerelease /\ HasDate(v) /\ DayAge(v, now) < 30) => InKept(v)

\* Two builds of one day, 29 days old, both kept.
C4_Witness ==
    /\ Called
    /\ Len(builds) = 2 /\ builds[1] # builds[2]
    /\ \A i \in 1..2 : builds[i].prerelease /\ HasDate(builds[i])
    /\ BuildDayKey(builds[1]) = BuildDayKey(builds[2])
    /\ DayAge(builds[1], now) = 29
    /\ Len(kept) = 2

\* C5 as stated: every build aged >= 450 days is in removed.
C5_CutoffAllBuilds ==
    Called =>
        \A v \in Range(builds) : (HasDate(v) /\ DayAge(v, now) >= 450) => InRemoved(v)

\* C5, amended: every prerelease build with a date and aged >= 450 days is
\* in removed, whatever its day key; stable releases are kept at any age.
C5_CutoffPrerelease ==
    Called =>
        \A v \in Range(builds) :
            (v.prerelease /\ HasDate(v) /\ DayAge(v, now) >= 450) => InRemoved(v)

\* A prerelease build past the cutoff whose day key is a multiple of 8.
C5_Witness ==
    /\ Called
    /\ \E v \in Range(builds) :
          /\ v.prerelease /\ HasDate(v) /\ DayAge(v, now) >= 450
          /\ BuildDayKey(v) % 8 = 0
          /\ InRemoved(v)

\* C6: a record with no created_at whose build_number does not start with
\* YYYY-MM-DD is in kept and not in removed; alone in the list it gives
\* kept.length = 1 and removed.length = 0.
C6_UndatedKept ==
    Called =>
        \A v \in Range(builds) :
            (v.created_at.kind = "absent" /\ ~MatchesDatePrefix(v.build_number))
            => /\ InKept(v)
               /\ builds = <<v>> => (Len(kept) = 1 /\ Len(removed) = 0)

\* testMissingDateIsKept's list, run after the clock moved on.
C6_Witness ==
    /\ Called
    /\ now > NowDay0 * 24 + 12
    /\ builds = <<Build(NumberPlain("experimental-foo"), TRUE, CreatedAbsent, <<"en">>)>>
    /\ kept = builds

C8_InputUnchanged ==
    [][(ApplyNow \/ ApplyAgain) =>
          /\ builds' = builds
          /\ Range(kept') \cup Range(removed') \subseteq Range(builds)]_vars

\* A removed record that carries a two-language list.
C8_Witness ==
    /\ Called
    /\ \E i \in 1..Len(removed) : removed[i].langs = <<"en", "ru">>

\* C9: a dry run computes the partition and sends no createBlob, createTree,
\* createCommit or updateRef request; the ref and the commits stay as they
\* were.
C9_DryRunNoMutation ==
    /\ [](dryRun /\ pc = "done" =>
             LET result == applyRetentionPolicy(
                     Parse(commits[head].tree.builds_json.content), clock)
             IN /\ locals.keptBuilds = result.kept
                /\ locals.removedBuilds = result.removed)
    /\ [][dryRun => (requests' = <<>> /\ head' = head /\ commits' = commits)]_vars

\* A finished dry run that found builds to remove.
C9_Witness ==
    /\ dryRun /\ pc = "done"
    /\ locals.removedBuilds # <<>>
    /\ locals.buildsBlob = DryRunSha
    /\ requests = <<>>

\* Age as tests/test-retention.mjs measures it:
\* Math.floor((testDate.getTime() - new Date(b.created_at).getTime()) / ONE_DAY)
TestAge(v) == (now - NewDate(v.created_at).time) \div ONE_DAY

DatedPrerelease(i) == builds[i].prerelease /\ HasDate(builds[i])

\* The indices of the dated prerelease builds of the UTC day of builds[i].
SameDay(i) ==
    {j \in 1..Len(builds) :
        DatedPrerelease(j) /\ BuildDayKey(builds[j]) = BuildDayKey(builds[i])}

\* builds[i] is the primary build of its day: no build of the day has a later
\* timestamp, and none with the same timestamp stands before it in the input.
IsPrimary(i) ==
    /\ DatedPrerelease(i)
    /\ \A j \in SameDay(i) :
          \/ getBuildDate(builds[j]).time < getBuildDate(builds[i]).time
          \/ getBuildDate(builds[j]).time = getBuildDate(builds[i]).time /\ j >= i

\* The thinning rule as the claims state it, on the age and the absolute
\* day key of a build.
ThinningKeeps(age, key) ==
    \/ age >= 30 /\ age < 90 /\ key % 2 = 0
    \/ age >= 90 /\ age < 210 /\ key % 4 = 0
    \/ age >= 210 /\ age < 450 /\ key % 8 = 0

----------------------------------------------------------------------------
(* The engine on records with missing and malformed fields *)

\* Prerelease records neither field of which gives a date.
MalformedPool ==
    {Build(NumberNotString, TRUE, CreatedEmpty, <<"en">>),
     Build(NumberBadDate("-45"), TRUE, CreatedInvalid, <<"en">>),
     Build(NumberAbsent, TRUE, CreatedAbsent, <<"en">>)}
\* Records whose two fields name different days, 451 days apart.
MismatchPool ==
    {Build(NumberDated(NowDay0 - 451, ""), TRUE, CreatedIso(NowDay0, 6), <<"en">>),
     Build(NumberDated(NowDay0, ""), TRUE, CreatedIso(NowDay0 - 451, 6), <<"en">>)}
\* Records dated by build_number alone, and builds with a time of day on the
\* same days.
MidnightPool ==
    {Build(NumberDated(NowDay0 - 451, "-f"), TRUE, CreatedInvalid, <<"en">>),
     Build(NumberDated(NowDay0 - 29, "-f"), TRUE, CreatedEmpty, <<"en">>),
     Nightly(NowDay0 - 29, 6, ""),
     Nightly(NowDay0 - 30, 6, "")}
DatePool ==
    MalformedPool \cup MismatchPool \cup MidnightPool
    \cup {Build(NumberNotString, FALSE, CreatedAbsent, <<"en">>)}
DateLists == UNION {[1..n -> DatePool] : n \in 0..MaxBuilds}

DateInit ==
    /\ builds \in DateLists
    /\ clock \in {NowDay0 * 24 + h : h \in NowHours}
    /\ now = clock
    /\ kept = <<>>
    /\ removed = <<>>
    /\ calls = 0
    /\ prevNow = now
    /\ prevKept = <<>>
    /\ prevRemoved = <<>>
    /\ threw = FALSE
    /\ dryRun = FALSE
    /\ pc = "idle"
    /\ head = 0
    /\ commits = <<>>
    /\ requests = <<>>
    /\ reads = <<>>
    /\ failures = <<>>
    /\ attempt = NoAttempt
    /\ workspace = NoWorkspace
    /\ env = NoEnv
    /\ locals = NoLocals

DateSpec == DateInit /\ [][Next]_vars

\* Neither field of v yields a date: created_at is absent, empty or
\* unparsable, and build_number is absent, no string, or a string without a
\* leading valid date.
YieldsNoDate(v) ==
    /\ v.created_at.kind \in {"absent", "empty", "invalid"}
    /\ v.build_number.kind \in {"absent", "number", "baddate", "plain"}

\* The list s without its element at index i.
Without(s, i) == SubSeq(s, 1, i - 1) \o SubSeq(s, i + 1, Len(s))

\* C12: no call raises an exception, whatever is missing or malformed in
\* the records; a prerelease record neither field of which yields a date is in
\* kept, and every other record is classified as in the list without it.
C12_MalformedTolerated ==
    /\ ~threw
    /\ Called =>
          \A i \in 1..Len(builds) :
              (builds[i].prerelease /\ YieldsNoDate(builds[i])) =>
                  /\ InKept(builds[i])
                  /\ LET rest == applyRetentionPolicy(Without(builds, i), now)
                     IN \A v \in Range(builds) :
                            /\ Count(rest.kept, v) =
                                   Count(kept, v) - (IF v = builds[i] THEN 1 ELSE 0)
                            /\ Count(rest.removed, v) = Count(removed, v)

\* A call on a record with an empty created_at and a build_number that is
\* no string, beside a build that was removed.
C12_Witness ==
    /\ Called /\ ~threw
    /\ \E i \in 1..Len(builds) :
          /\ builds[i].prerelease
          /\ builds[i].created_at.kind = "empty"
          /\ builds[i].build_number.kind = "number"
          /\ InKept(builds[i])
    /\ removed # <<>>

\* The instant the date fields of v name, read in the order the claim gives:
\* a parsable created_at first, else the leading date of build_number at UTC
\* midnight, else none.
ResolvedInstant(v) ==
    IF v.created_at.kind = "iso"
    THEN DateOf(v.created_at.day * 24 + v.created_at.hour)
    ELSE IF v.build_number.kind = "dated"
         THEN DateOf(v.build_number.day * 24)
         ELSE Null

\* The UTC calendar day of that instant.
ResolvedDay(v) ==
    IF v.created_at.kind = "iso" THEN v.created_at.day ELSE v.build_number.day

\* C15: a parsable created_at gives the build's date even when build_number
\* starts with another date; the leading date of build_number, as UTC
\* midnight, is used only when created_at is absent or unparsable; otherwise
\* the build has no date. Builds with instants on one UTC calendar day have
\* the same day key at any time of day, and the engine classifies by the age
\* of that day.
C15_DateResolution ==
    Called =>
        /\ \A v \in Range(builds) : getBuildDate(v) = ResolvedInstant(v)
        /\ \A v, w \in Range(builds) :
               (HasDate(v) /\ HasDate(w)) =>
                   (BuildDayKey(v) = BuildDayKey(w) <=> ResolvedDay(v) = ResolvedDay(w))
        /\ \A v \in Range(builds) :
               (v.prerelease /\ ~ResolvedInstant(v).isNull) =>
                   LET age == Max(0, toDayKey(now, ONE_DAY) - ResolvedDay(v))
                   IN /\ age < 30 => InKept(v)
                      /\ age >= 450 => InRemoved(v)

\* A kept build made today whose build_number starts with a date 451 days
\* back, beside a removed build dated by its build_number alone.
C15_Witness ==
    /\ Called
    /\ Len(builds) = 2
    /\ builds[1].created_at.kind = "iso" /\ builds[1].build_number.kind = "dated"
    /\ builds[1].created_at.day = toDayKey(now, ONE_DAY)
    /\ builds[1].build_number.day = builds[1].created_at.day - 451
    /\ InKept(builds[1])
    /\ builds[2].created_at.kind = "invalid" /\ builds[2].build_number.kind = "dated"
    /\ InRemoved(builds[2])

----------------------------------------------------------------------------
(* The engine on days with several builds *)

\* Longest build list drawn in DayGroupInit.
MaxGroup == 3

\* Three builds of a day with an even day key, 29 days old on day NowDay0,
\* two of them with one timestamp; two builds with one timestamp on the day
\* before it, whose key is odd.
DayGroupPool ==
    {Nightly(NowDay0 - 29, 6, ""),
     Nightly(NowDay0 - 29, 18, "-2"),
     Build(NumberDated(NowDay0 - 29, "-3"), TRUE, CreatedIso(NowDay0 - 29, 18), <<"en", "ru">>),
     Nightly(NowDay0 - 30, 18, "-2"),
     Build(NumberDated(NowDay0 - 30, "-3"), TRUE, CreatedIso(NowDay0 - 30, 18), <<"en", "ru">>)}
DayGroupLists == UNION {[1..n -> DayGroupPool] : n \in 0..MaxGroup}

DayGroupInit ==
    /\ builds \in DayGroupLists
    /\ clock \in {NowDay0 * 24 + h : h \in NowHours}
    /\ now = clock
    /\ kept = <<>>
    /\ removed = <<>>
    /\ calls = 0
    /\ prevNow = now
    /\ prevKept = <<>>
    /\ prevRemoved = <<>>
    /\ threw = FALSE
    /\ dryRun = FALSE
    /\ pc = "idle"
    /\ head = 0
    /\ commits = <<>>
    /\ requests = <<>>
    /\ reads = <<>>
    /\ failures = <<>>
    /\ attempt = NoAttempt
    /\ workspace = NoWorkspace
    /\ env = NoEnv
    /\ locals = NoLocals

DayGroupSpec == DayGroupInit /\ [][Next]_vars

\* The indices in list s of the dated prerelease builds of the day of v.
OfDay(s, v) ==
    {k \in 1..Len(s) :
        s[k].prerelease /\ HasDate(s[k]) /\ BuildDayKey(s[k]) = BuildDayKey(v)}

\* C13: of the dated prerelease builds of one UTC day aged 30 days or more,
\* at most one is in kept; every build of the day but the primary one is in
\* removed, whether the primary one is kept or not.
C13_OnePerDay ==
    Called =>
        \A i \in 1..Len(builds) :
            (DatedPrerelease(i) /\ DayAge(builds[i], now) >= 30) =>
                /\ Cardinality(OfDay(kept, builds[i])) <= 1
                /\ Cardinality(OfDay(removed, builds[i])) >= Cardinality(SameDay(i)) - 1
                /\ (~IsPrimary(i) /\ Count(builds, builds[i]) = 1) => InRemoved(builds[i])

\* Three builds of one day aged 30 or more: one kept, two removed.
C13_Witness ==
    /\ Called
    /\ Len(builds) = 3
    /\ \A i \in 1..3 : DatedPrerelease(i) /\ DayAge(builds[i], now) >= 30
    /\ Cardinality(SameDay(1)) = 3
    /\ Len(kept) = 1 /\ Len(removed) = 2

\* C14: the primary build of a day is the one with the greatest timestamp;
\* of several builds with that timestamp the one earliest in the input is
\* primary and the others are extras, on every run: on a kept day aged 30 days
\* or more the one kept record of the day is that build, and a second run with
\* the same `now` keeps the same record.
C14_PrimaryIsLatestFirst ==
    /\ Called =>
          \A i \in 1..Len(builds) :
              (IsPrimary(i) /\ DayAge(builds[i], now) >= 30
                  /\ ThinningKeeps(DayAge(builds[i], now), BuildDayKey(builds[i])))
              => /\ \A k \in OfDay(kept, builds[i]) : kept[k] = builds[i]
                 /\ Count(kept, builds[i]) = 1
                 /\ \A j \in SameDay(i) :
                        builds[j] # builds[i] => InRemoved(builds[j])
    /\ (calls = 2 /\ now = prevNow) => kept = prevKept

\* Two different builds with one timestamp, the first of them kept and the
\* second removed, on a second run with the same `now`.
C14_Witness ==
    /\ calls = 2 /\ now = prevNow
    /\ Len(builds) >= 2
    /\ builds[1] # builds[2]
    /\ DatedPrerelease(1) /\ DatedPrerelease(2)
    /\ getBuildDate(builds[1]).time = getBuildDate(builds[2]).time
    /\ InKept(builds[1]) /\ InRemoved(builds[2])

----------------------------------------------------------------------------
(* The engine on one list at instants far apart *)

\* Days after NowDay0 at which the policy is applied: the clock leaps from
\* one of them to a later one.
AgingStops == {0, 1, 60, 61, 120, 240, 241, 420}

\* Builds aged 0, 1, 3, 7 and 30 days on day NowDay0, whose day keys are
\* 3, 2, 0, 4 and 5 (mod 8) when NowDay0 = 3 (mod 8), and a second build of
\* the first of these days.
AgingPool ==
    {Nightly(NowDay0 - a, 6, "") : a \in {0, 1, 3, 7, 30}}
    \cup {Nightly(NowDay0, 18, "-2")}
AgingLists == UNION {[1..n -> AgingPool] : n \in 0..MaxBuilds}

AgingInit ==
    /\ builds \in AgingLists
    /\ clock = NowDay0 * 24 + 12
    /\ now = clock
    /\ kept = <<>>
    /\ removed = <<>>
    /\ calls = 0
    /\ prevNow = now
    /\ prevKept = <<>>
    /\ prevRemoved = <<>>
    /\ threw = FALSE
    /\ dryRun = FALSE
    /\ pc = "idle"
    /\ head = 0
    /\ commits = <<>>
    /\ requests = <<>>
    /\ reads = <<>>
    /\ failures = <<>>
    /\ attempt = NoAttempt
    /\ workspace = NoWorkspace
    /\ env = NoEnv
    /\ locals = NoLocals

\* Time passes up to a later stop.
Later ==
    /\ \E stop \in AgingStops :
          /\ (NowDay0 + stop) * 24 + 12 > clock
          /\ clock' = (NowDay0 + stop) * 24 + 12
    /\ UNCHANGED engineVars
    /\ UNCHANGED runVars

AgingNext == ApplyNow \/ Later

AgingSpec == AgingInit /\ [][AgingNext]_vars

\* C16: on one list, a build removed by a call is removed by every call with
\* a later or equal `now`: no build goes back from removed to kept.
C16_RemovalMonotone ==
    (calls = 2 /\ prevNow <= now) =>
        \A v \in Range(builds) : Count(removed, v) >= Count(prevRemoved, v)

\* Two calls in different age bands: a build removed by both, the second
\* time with a day key that is not odd, and a build the first call kept and
\* the second removed.
C16_Witness ==
    /\ calls = 2 /\ prevNow < now
    /\ \E v \in Range(builds) :
          /\ Count(prevRemoved, v) > 0 /\ InRemoved(v)
          /\ Band(DayAge(v, prevNow)) < Band(DayAge(v, now))
          /\ BuildDayKey(v) % 2 = 0
    /\ \E v \in Range(builds) : Count(prevKept, v) > 0 /\ InRemoved(v)

----------------------------------------------------------------------------
(* tests/test-retention.mjs: testMultiDayStability, daily runs each fed the
   kept list of the run before *)

\* How many days the simulation runs after day NowDay0.
MaxAhead == 7

\* Builds that reach a band edge within the simulated days: aged 28 and 29
\* (two builds) days, 89, 207 and 443 days on day NowDay0; and a stable one.
SimulationPool ==
    {Nightly(NowDay0 - a, 6, "") : a \in {28, 29, 89, 207, 443}}
    \cup {Nightly(NowDay0 - 29, 18, "-2"),
          Build(NumberPlain("v0.1"), FALSE, CreatedIso(NowDay0 - 450, 6), <<"en">>)}
SimulationLists == UNION {[1..n -> SimulationPool] : n \in 0..MaxBuilds}

SimulationInit ==
    /\ builds \in SimulationLists
    /\ clock \in {NowDay0 * 24 + h : h \in NowHours}
    /\ now = clock
    /\ kept = <<>>
    /\ removed = <<>>
    /\ calls = 0
    /\ prevNow = now
    /\ prevKept = <<>>
    /\ prevRemoved = <<>>
    /\ threw = FALSE
    /\ dryRun = FALSE
    /\ pc = "idle"
    /\ head = 0
    /\ commits = <<>>
    /\ requests = <<>>
    /\ reads = <<>>
    /\ failures = <<>>
    /\ attempt = NoAttempt
    /\ workspace = NoWorkspace
    /\ env = NoEnv
    /\ locals = NoLocals

\* One round of the loop: const result = applyRetentionPolicy(currentBuilds,
\* testDate); currentBuilds = result.kept; and the next round's testDate is
\* a day later.
RunDay ==
    /\ clock <= (NowDay0 + MaxAhead) * 24
    /\ LET result == applyRetentionPolicy(builds, clock)
       IN /\ kept' = result.kept
          /\ removed' = result.removed
          /\ builds' = result.kept
    /\ now' = clock
    /\ clock' = clock + ONE_DAY
    /\ calls' = Min(calls + 1, 2)
    /\ prevNow' = IF calls >= 1 THEN now ELSE clock
    /\ prevKept' = IF calls >= 1 THEN kept ELSE <<>>
    /\ prevRemoved' = IF calls >= 1 THEN removed ELSE <<>>
    /\ threw' = applyRetentionPolicyThrows(builds)
    /\ UNCHANGED runVars

SimulationNext == RunDay

SimulationSpec == SimulationInit /\ [][SimulationNext]_vars

\* The latest round ran on the kept list of the round before, a day later.
FedNextDay == calls = 2 /\ now = prevNow + ONE_DAY

\* The ages at which a day group enters a band or leaves the last one.
BandEdges == {30, 90, 210, 450}

\* C17: in daily runs each fed the kept list of the day before, the kept list
\* of a day is within that of the day before; a build kept one day is removed
\* the next only if the age of its day reached exactly 30, 90, 210 or 450 on
\* that day; a run on a day on which no day group reaches one of these ages
\* removes nothing.
C17_DailyRunsStable ==
    FedNextDay =>
        /\ \A v \in Range(kept) : Count(kept, v) <= Count(prevKept, v)
        /\ \A v \in Range(removed) :
               /\ Count(removed, v) <= Count(prevKept, v)
               /\ v.prerelease /\ HasDate(v) /\ DayAge(v, now) \in BandEdges
        /\ (\A v \in Range(prevKept) :
                ~(v.prerelease /\ HasDate(v) /\ DayAge(v, now) \in BandEdges))
           => removed = <<>>

\* A round removed a build whose day reached 450 days, kept by every round
\* before, and kept another build.
C17_Witness ==
    /\ FedNextDay
    /\ Len(prevKept) = 2
    /\ \E v \in Range(removed) : DayAge(v, now) = 450
    /\ kept # <<>>

\* The reading requests with operation op sent so far.
ReadsOf(op) == {i \in 1..Len(reads) : reads[i].op = op}

\* C18: a prune run reads builds.json once, at the base commit it resolved,
\* and computes the whole partition from it before it sends a mutating
\* request; the partition and the base commit do not change afterwards, and
\* the trees the run reads and filters are those of that base commit,
\* whatever happens to the branch meanwhile.
C18_SingleSnapshot ==
    /\ [](/\ Cardinality(ReadsOf("getCommit")) <= 1
          /\ Cardinality(ReadsOf("getContent")) <= 1
          /\ \A i \in 1..Len(reads) : reads[i].sha = locals.baseCommit
          /\ requests # <<>> => ReadsOf("getContent") # {}
          /\ ReadsOf("getContent") # {} =>
                LET existingBuilds ==
                        Parse(commits[locals.baseCommit].tree.builds_json.content)
                    result == applyRetentionPolicy(existingBuilds, clock)
                IN /\ locals.existingBuilds = existingBuilds
                   /\ locals.keptBuilds = result.kept
                   /\ locals.removedBuilds = result.removed
          /\ Cardinality(ReadsOf("getTree")) >= 1 =>
                locals.baseTree = commits[locals.baseCommit].tree
          /\ Cardinality(ReadsOf("getTree")) = 2 =>
                locals.dataTree = commits[locals.baseCommit].tree.data.tree)
    /\ [][ReadsOf("getContent") # {} =>
              /\ locals'.baseCommit = locals.baseCommit
              /\ locals'.keptBuilds = locals.keptBuilds
              /\ locals'.removedBuilds = locals.removedBuilds]_vars

\* A run read the data tree of its base commit after the other writer had
\* moved the branch to a commit with another list and another data tree.
C18_Witness ==
    /\ Cardinality(ReadsOf("getTree")) = 2
    /\ head # locals.baseCommit
    /\ commits[head].parents = <<locals.baseCommit>>
    /\ commits[head].tree.data.tree # locals.dataTree
    /\ Parse(commits[head].tree.builds_json.content) # locals.existingBuilds
    /\ locals.commit = 0

\* The requests of a whole run that writes, in the order run sends them.
AllRequests == <<"createBlob", "createTree", "createTree", "createCommit", "updateRef">>

\* C19: a run that fails, at reading builds.json or at any step of persisting
\* the new state (a blob, tree or commit that cannot be created, a root tree
\* without 'data'), leaves the branch at the commit it pointed at; the
\* branch moves only in the last step of a run, after the blob, both trees
\* and the commit were created.
C19_FailureLeavesRef ==
    /\ [](pc = "failed" =>
             /\ head = 1
             /\ \A i \in 1..Len(requests) : requests[i] # "updateRef")
    /\ [](~commits[1].tree.data.present =>
             /\ head = 1
             /\ \A i \in 1..Len(requests) : requests[i] = "createBlob")
    /\ [](pc \notin {"getCommit", "getContent", "failed"} => ReadsOf("getContent") # {})
    /\ [](head # 1 =>
             /\ pc = "done"
             /\ requests = AllRequests
             /\ head = locals.commit /\ head = Len(commits)
             /\ commits[head].tree = locals.tree
             /\ locals.tree.builds_json = locals.buildsBlob
             /\ locals.tree.data = TreeOf(locals.newDataTree))
    /\ [][head' # head => (pc = "updateRef" /\ pc' = "done")]_vars

\* A run failed at its last request: the commit exists, the branch has not
\* moved.
C19_Witness ==
    /\ pc = "failed"
    /\ requests = SubSeq(AllRequests, 1, 4)
    /\ Len(commits) = 2 /\ locals.commit = 2
    /\ head = 1

\* C20: after a run that is no dry run, removed at least one build and
\* succeeded, the branch points at a commit whose only parent is the base
\* commit, whose builds.json is the kept list of the policy on the base
\* commit's list, whose data/ tree consists of the entries of the base
\* commit's data/ tree not named like a removed build, each with its sha,
\* and whose other root entries are those of the base commit.
C20_CommitContent ==
    (pc = "done" /\ ~dryRun /\ locals.removedBuilds # <<>>) =>
        LET base == commits[locals.baseCommit]
            new == commits[head]
            result == applyRetentionPolicy(Parse(base.tree.builds_json.content), clock)
        IN /\ head # locals.baseCommit
           /\ new.parents = <<locals.baseCommit>>
           /\ new.tree.builds_json = BlobOf(Stringify(result.kept))
           /\ Parse(new.tree.builds_json.content) = result.kept
           /\ new.tree.data.present
           /\ new.tree.data.tree =
                  {item \in base.tree.data.tree :
                      \A i \in 1..Len(result.removed) :
                          item.path # result.removed[i].build_number}
           /\ new.tree.other = base.tree.other

\* A finished run that removed the directory of a build and left that of a
\* kept build and data/latest in place.
C20_Witness ==
    /\ pc = "done" /\ ~dryRun /\ head = 2
    /\ Len(locals.keptBuilds) = 1 /\ Len(locals.removedBuilds) = 1
    /\ locals.keptBuilds[1].build_number # locals.removedBuilds[1].build_number
    /\ DataItem(locals.keptBuilds[1].build_number) \in commits[2].tree.data.tree
    /\ DataItem(NumberPlain("latest")) \in commits[2].tree.data.tree
    /\ DataItem(locals.removedBuilds[1].build_number) \in commits[1].tree.data.tree
    /\ DataItem(locals.removedBuilds[1].build_number) \notin commits[2].tree.data.tree

----------------------------------------------------------------------------
(* lib.mjs: GitHubHelper.retry *)

\* retry is called with a number of retries from 0 to the default.
RetryInit ==
    /\ \E n \in 0..DefaultRetries :
          attempt = [NoAttempt EXCEPT !.retries = n, !.outcome = "running"]
    /\ failures = <<>>
    /\ workspace = NoWorkspace
    /\ env = NoEnv
    /\ builds = <<>>
    /\ clock = NowDay0 * 24
    /\ now = clock
    /\ kept = <<>>
    /\ removed = <<>>
    /\ calls = 0
    /\ prevNow = now
    /\ prevKept = <<>>
    /\ prevRemoved = <<>>
    /\ threw = FALSE
    /\ dryRun = FALSE
    /\ pc = "idle"
    /\ head = 0
    /\ commits = <<>>
    /\ requests = <<>>
    /\ reads = <<>>
    /\ locals = NoLocals

retryFrame ==
    <<builds, now, clock, kept, removed, calls, prevNow, prevKept, prevRemoved,
      threw, dryRun, pc, head, commits, requests, reads, failures, locals,
      workspace, env>>

\* The loop body is entered: fn() is called.
CallFn ==
    /\ attempt.outcome = "running" /\ ~attempt.inflight
    /\ LoopContinues(attempt.i, attempt.retries)
    /\ attempt' = [attempt EXCEPT !.inflight = TRUE, !.calls = @ + 1]
    /\ UNCHANGED retryFrame

\* return await fn(): the promise is fulfilled.
FnFulfils ==
    /\ attempt.inflight
    /\ attempt' = [attempt EXCEPT !.inflight = FALSE, !.outcome = "returned"]
    /\ UNCHANGED retryFrame

\* catch (e) { ...; await new Promise((r) => setTimeout(r, 1000 * i)); } and i++
FnRejects ==
    /\ attempt.inflight
    /\ attempt' = [attempt EXCEPT !.inflight = FALSE,
                                  !.waits = Append(@, Backoff(attempt.i)),
                                  !.i = @ + 1]
    /\ UNCHANGED retryFrame

\* throw new Error("Max retries reached")
MaxRetriesReached ==
    /\ attempt.outcome = "running" /\ ~attempt.inflight
    /\ ~LoopContinues(attempt.i, attempt.retries)
    /\ attempt' = [attempt EXCEPT !.outcome = "threw"]
    /\ UNCHANGED retryFrame

RetryNext == CallFn \/ FnFulfils \/ FnRejects \/ MaxRetriesReached

RetrySpec == RetryInit /\ [][RetryNext]_vars

\* C22: retry calls fn at most `retries` times, one call at a time; it
\* returns on the first call that succeeds, after which fn is not called
\* again; it throws exactly when all `retries` calls have failed; the wait
\* after the failed call number i (from 0) is 1000*i ms, so the waits never
\* decrease; and it makes no step once it has returned or thrown.
C22_RetryBounded ==
    /\ [](/\ attempt.calls <= attempt.retries
          /\ attempt.calls = Len(attempt.waits) + (IF attempt.inflight THEN 1 ELSE 0)
                               + (IF attempt.outcome = "returned" THEN 1 ELSE 0)
          /\ \A k \in 1..Len(attempt.waits) : attempt.waits[k] = 1000 * (k - 1)
          /\ \A k \in 1..Len(attempt.waits) - 1 : attempt.waits[k] <= attempt.waits[k + 1]
          /\ attempt.outcome = "threw" =>
                 Len(attempt.waits) = attempt.retries /\ attempt.calls = attempt.retries
          /\ attempt.outcome = "returned" => Len(attempt.waits) < attempt.retries)
    /\ [][(attempt.outcome = "running" /\ Len(attempt.waits) = attempt.retries)
              => attempt'.outcome = "threw"]_vars
    /\ [][attempt.outcome \in {"returned", "threw"} => attempt' = attempt]_vars

\* The default retry gave up: ten calls, all failed, the last wait 9000 ms.
C22_Witness ==
    /\ attempt.outcome = "threw"
    /\ attempt.retries = DefaultRetries
    /\ attempt.calls = 10
    /\ attempt.waits[10] = 9000

----------------------------------------------------------------------------
(* The prune run with requests that fail *)

\* A request that run awaits directly is answered with an error.
CallFails == pc # "createBlob" /\ RequestFails

\* retry: a createBlob request is rejected; the helper waits and goes on.
UploadAttemptFails ==
    /\ pc = "createBlob" /\ ~dryRun
    /\ LoopContinues(attempt.i, attempt.retries)
    /\ attempt' = [attempt EXCEPT !.calls = @ + 1,
                                  !.waits = Append(@, Backoff(attempt.i)),
                                  !.i = @ + 1,
                                  !.outcome = "running"]
    /\ failures' = Append(failures, pc)
    /\ UNCHANGED <<dryRun, pc, head, commits, requests, reads, locals, clock,
                   workspace, env>>
    /\ UNCHANGED engineVars

\* retry: throw new Error("Max retries reached"); the run ends with it.
UploadGivesUp ==
    /\ pc = "createBlob" /\ ~dryRun
    /\ ~LoopContinues(attempt.i, attempt.retries)
    /\ attempt' = [attempt EXCEPT !.outcome = "threw"]
    /\ pc' = "failed"
    /\ UNCHANGED <<dryRun, head, commits, requests, reads, failures, locals, clock,
                   workspace, env>>
    /\ UNCHANGED engineVars

FaultyNext ==
    \/ GetCommit \/ GetContent \/ CreateBlob \/ GetRootTree \/ GetDataTree
    \/ CreateDataTree \/ CreateRootTree \/ CreateCommit \/ UpdateRef
    \/ CallFails \/ UploadAttemptFails \/ UploadGivesUp

FaultySpec == PruneInit /\ [][FaultyNext]_vars

\* C21 as stated: every request of the prune run is retried, so a run in
\* which a single request was answered with an error has not failed.
C21_EveryCallRetried ==
    Len(failures) = 1 => pc # "failed"

(***************************************************************************)
(* The pull run: it lists the upstream releases, processes those whose tag *)
(* is not a build_number of builds.json, and writes builds.json and the    *)
(* stable/nightly symlinks.                                                *)
(***************************************************************************)

\* A release as github.rest.repos.listReleases returns it.
Release(tag, prerelease, createdAt) ==
    [tag_name |-> tag, prerelease |-> prerelease, created_at |-> createdAt]

StableRelease == Release(NumberPlain("v1"), FALSE, CreatedIso(NowDay0 - 40, 0))

\* Upstream releases: tags are unique, created_at is an ISO string.  The
\* nightly of 30 days ago falls on an odd day key.
ReleasePool ==
    {Release(NumberDated(NowDay0 - a, ""), TRUE, CreatedIso(NowDay0 - a, 6)) : a \in {0, 30}}
    \cup {StableRelease}

MaxReleases == 3

ReleaseLists ==
    {l \in UNION {[1..n -> ReleasePool] : n \in 0..MaxReleases} :
        \A i, j \in 1..Len(l) : l[i].tag_name = l[j].tag_name => i = j}

\* if (!fs.existsSync(buildsPath)) return []; return JSON.parse(readFileSync)
getExistingBuilds(ws) ==
    IF ws.builds.present THEN Parse(ws.builds.text) ELSE <<>>

\* Fault: every release is processed, known or not.
NewReleases_all(releases, existingBuilds) == releases

\* releases.filter(r => !existingBuilds.some(b => b.build_number === r.tag_name))
NewReleases(releases, existingBuilds) ==
    SelectSeq(releases,
              LAMBDA r : ~\E i \in 1..Len(existingBuilds) :
                             existingBuilds[i].build_number = r.tag_name)

\* newBuilds.push({build_number: tag_name, prerelease, created_at, langs})
NewBuild(release) ==
    Build(release.tag_name, release.prerelease, release.created_at, <<"en">>)

\* ISO 8601 strings of one format compare as their instants do.
CreatedKey(c) == c.day * ONE_DAY + c.hour

\* Fault: the list is left in the order of the concatenation.
SortNewestFirst_unsorted(list) == list

RECURSIVE InsertNewestFirst(_, _)
InsertNewestFirst(sorted, b) ==
    IF sorted = <<>> THEN <<b>>
    ELSE IF CreatedKey(Head(sorted).created_at) >= CreatedKey(b.created_at)
         THEN <<Head(sorted)>> \o InsertNewestFirst(Tail(sorted), b)
         ELSE <<b>> \o sorted

\* builds.sort((a, b) => b.created_at.localeCompare(a.created_at)): a stable
\* sort, the greatest created_at first.
RECURSIVE SortNewestFirst(_)
SortNewestFirst(list) ==
    IF list = <<>> THEN <<>>
    ELSE InsertNewestFirst(SortNewestFirst(SubSeq(list, 1, Len(list) - 1)),
                           list[Len(list)])

\* builds.find(b => b.prerelease === wanted)?.build_number
RECURSIVE FindTarget(_, _)
FindTarget(list, wanted) ==
    IF list = <<>> THEN NoLink
    ELSE IF Head(list).prerelease = wanted THEN Head(list).build_number
         ELSE FindTarget(Tail(list), wanted)

Directory == [kind |-> "directory", day |-> 0, suffix |-> ""]

\* One link of updateSymlinks: no target or dry run leaves the path alone, a
\* real directory at the path is skipped, anything else is replaced.
UpdateLink(link, target, dry) ==
    IF target = NoLink \/ dry \/ link = Directory THEN link ELSE target

\* Fault: the links are written in dry-run mode too.
updateSymlinks_always(links, list, dry) ==
    [stable |-> UpdateLink(links.stable, FindTarget(list, FALSE), FALSE),
     nightly |-> UpdateLink(links.nightly, FindTarget(list, TRUE), FALSE)]

updateSymlinks(links, list, dry) ==
    [stable |-> UpdateLink(links.stable, FindTarget(list, FALSE), dry),
     nightly |-> UpdateLink(links.nightly, FindTarget(list, TRUE), dry)]

ListReleases == [op |-> "listReleases", ref |-> NoLink]
Download(release) == [op |-> "downloadZipballArchive", ref |-> release.tag_name]
Downloads(releases) == [i \in 1..Len(releases) |-> Download(releases[i])]

\* The runs of one behaviour are capped.
MaxRuns == 3
Runs == Cardinality({i \in 1..Len(requests) : requests[i] = ListReleases})

Tags(releases) == {releases[i].tag_name : i \in 1..Len(releases)}

\* A whole pull run in which every download succeeds.
PullRun(dry) ==
    LET existingBuilds == getExistingBuilds(workspace)
        fresh == NewReleases(env.releases, existingBuilds)
        newBuilds == [i \in 1..Len(fresh) |-> NewBuild(fresh[i])]
        list == SortNewestFirst(existingBuilds \o newBuilds)
        written == IF dry THEN workspace.files ELSE workspace.files \cup Tags(fresh)
    IN  /\ Runs < MaxRuns
        /\ dryRun' = dry
        /\ pc' = "pulled"
        /\ requests' = requests \o <<ListReleases>> \o Downloads(fresh)
        /\ workspace' =
               IF newBuilds = <<>> THEN workspace
               ELSE [workspace EXCEPT
                        !.files = written,
                        !.builds = IF dry THEN @
                                   ELSE [present |-> TRUE, text |-> Stringify(list)],
                        !.links = updateSymlinks(@, list, dry)]
        /\ UNCHANGED engineVars
        /\ UNCHANGED <<head, commits, reads, failures, attempt, locals, clock, env>>

\* A pull run whose k-th download is rejected: the builds before it have been
\* written, builds.json and the links have not.
PullFails(dry) ==
    LET fresh == NewReleases(env.releases, getExistingBuilds(workspace))
    IN  \E k \in 1..Len(fresh) :
            /\ Runs < MaxRuns
            /\ dryRun' = dry
            /\ pc' = "pullFailed"
            /\ requests' = requests \o <<ListReleases>> \o Downloads(SubSeq(fresh, 1, k))
            /\ workspace' =
                   [workspace EXCEPT
                       !.files = IF dry THEN @ ELSE @ \cup Tags(SubSeq(fresh, 1, k - 1))]
            /\ UNCHANGED engineVars
            /\ UNCHANGED <<head, commits, reads, failures, attempt, locals, clock, env>>

\* Fault: dry run only when the variable is not defined at all.
LauncherDryRun_unsetOnly(token) == token = "unset"

\* dryRun: !process.env.GITHUB_TOKEN -- an empty string is falsy as well.
LauncherDryRun(token) == token \in {"unset", "empty"}

\* The launcher script: run({github, context, dryRun: !process.env.GITHUB_TOKEN})
LauncherPull ==
    \/ PullRun(LauncherDryRun(env.token))
    \/ PullFails(LauncherDryRun(env.token))

\* run() called by the workflow, dryRun as passed (false by default).
WorkflowPull == \E dry \in BOOLEAN : PullRun(dry) \/ PullFails(dry)

\* builds.json as pull leaves it: unique build_numbers, newest first.
PulledLists ==
    {SortNewestFirst([i \in 1..Len(l) |-> NewBuild(l[i])]) : l \in ReleaseLists}

Tokens == {"unset", "empty", "value"}

PullInit ==
    /\ builds = <<>>
    /\ now = NowDay0 * ONE_DAY
    /\ clock = NowDay0 * ONE_DAY
    /\ kept = <<>>
    /\ removed = <<>>
    /\ calls = 0
    /\ prevNow = 0
    /\ prevKept = <<>>
    /\ prevRemoved = <<>>
    /\ threw = FALSE
    /\ dryRun = FALSE
    /\ pc = "idle"
    /\ head = 0
    /\ commits = <<>>
    /\ requests = <<>>
    /\ reads = <<>>
    /\ failures = <<>>
    /\ attempt = NoAttempt
    /\ locals = NoLocals
    /\ \E rs \in ReleaseLists, t \in Tokens : env = [releases |-> rs, token |-> t]
    /\ \E l \in PulledLists, present \in BOOLEAN,
          s \in {NoLink, Directory, StableRelease.tag_name} :
          workspace =
              [NoWorkspace EXCEPT
                  !.builds = IF present THEN [present |-> TRUE, text |-> Stringify(l)]
                             ELSE @,
                  !.files = IF present THEN BuildNumbers(l) ELSE {},
                  !.links = [stable |-> s, nightly |-> NoLink]]

PullNext == LauncherPull \/ WorkflowPull

PullSpec == PullInit /\ [][PullNext]_vars

\* C23: a pull run downloads exactly the releases whose tag_name is no
\* build_number of builds.json, in the order of the release list; a run with
\* none of them writes nothing; a successful non-dry run that follows a
\* successful non-dry run leaves builds.json as it was; and builds.json never
\* lists a build_number twice.
C23_PullIdempotent ==
    /\ [][LET existingBuilds == getExistingBuilds(workspace)
              fresh == SelectSeq(env.releases,
                                 LAMBDA r : r.tag_name \notin BuildNumbers(existingBuilds))
          IN  /\ pc' = "pulled" =>
                     requests' = requests \o <<ListReleases>> \o Downloads(fresh)
              /\ fresh = <<>> => workspace' = workspace
              /\ (pc = "pulled" /\ ~dryRun /\ pc' = "pulled" /\ ~dryRun') =>
                     /\ workspace'.builds = workspace.builds
                     /\ requests' = requests \o <<ListReleases>>]_vars
    /\ [](LET list == getExistingBuilds(workspace)
          IN  \A i, j \in 1..Len(list) :
                  list[i].build_number = list[j].build_number => i = j)

\* Two runs: the first downloaded and recorded three releases, the second
\* found nothing to do.
C23_Witness ==
    /\ pc = "pulled" /\ ~dryRun
    /\ Len(requests) = 5
    /\ requests[1] = ListReleases /\ requests[5] = ListReleases
    /\ \A k \in 2..4 : requests[k].op = "downloadZipballArchive"
    /\ Len(getExistingBuilds(workspace)) = 3

(***************************************************************************)
(* The launcher alone: every pull run is started by the launcher script.   *)
(***************************************************************************)

LauncherNext == LauncherPull

LauncherSpec == PullInit /\ [][LauncherNext]_vars

Ran == pc \in {"pulled", "pullFailed"}

\* C24, amended: a dry pull run leaves the whole workspace as it was (build
\* files, builds.json, the stable and nightly links), and the launcher runs
\* dry exactly when GITHUB_TOKEN is not set or is the empty string.
C24_DryRunFrame ==
    /\ [][dryRun' => workspace' = workspace]_vars
    /\ [](Ran => (dryRun <=> env.token \in {"unset", "empty"}))

\* A dry run of the launcher, the token set to the empty string, that
\* downloaded three releases and wrote none of them.
C24_Witness ==
    /\ pc = "pulled" /\ dryRun /\ env.token = "empty"
    /\ Len(requests) = 4
    /\ ~workspace.builds.present
    /\ workspace.files = {}
    /\ workspace.links.nightly = NoLink

\* C24 as stated: dry run exactly when GITHUB_TOKEN is not set.
C24_DryRunExactlyWhenUnset ==
    /\ [][dryRun' => workspace' = workspace]_vars
    /\ [](Ran => (dryRun <=> env.token = "unset"))

(***************************************************************************)
(* The runner persists `kept` as the new builds.json; the next run applies *)
(* the policy to that list.                                                *)
(***************************************************************************)

\* A run on the kept list of the run before, with the same `now`.
RunOnKept ==
    LET result == applyRetentionPolicy(kept, now)
    IN /\ calls >= 1
       /\ ~threw
       /\ builds' = kept
       /\ threw' = applyRetentionPolicyThrows(kept)
       /\ kept' = IF threw' THEN <<>> ELSE result.kept
       /\ removed' = IF threw' THEN <<>> ELSE result.removed
       /\ calls' = 2
       /\ prevNow' = now
       /\ prevKept' = kept
       /\ prevRemoved' = removed
       /\ UNCHANGED <<now, clock>>
       /\ UNCHANGED runVars

FixpointNext == ApplyNow \/ RunOnKept \/ NextDay

FixpointSpec == Init /\ [][FixpointNext]_vars

\* C25: applying the policy to the kept list of the run before, with the same
\* now, does not throw, removes nothing and keeps every record as many times
\* as it was there.
C25_Fixpoint ==
    (calls = 2 /\ builds = prevKept /\ now = prevNow) =>
        /\ ~threw
        /\ removed = <<>>
        /\ \A b \in Range(builds) \cup Range(kept) : Count(kept, b) = Count(builds, b)

\* The first run removed a build and kept two; the second run was fed these two.
C25_Witness ==
    /\ calls = 2 /\ builds = prevKept /\ now = prevNow
    /\ prevRemoved # <<>>
    /\ Len(kept) = 2

\* c is commit `of` or one of its ancestors.
RECURSIVE OnBranch(_, _)
OnBranch(c, of) ==
    \/ c = of
    \/ of # 0 /\ \E k \in 1..Len(commits[of].parents) : OnBranch(c, commits[of].parents[k])

\* The builds.json of a commit.
BuildsAt(c) == Parse(commits[c].tree.builds_json.content)

\* C26 as stated: once the prune run has finished, every commit made on the
\* branch, the other writer's included, is the head or an ancestor of it, and
\* the build the other writer added is listed in the head's builds.json.
C26_ConcurrentCommitKept ==
    pc = "done" =>
        \A c \in 1..Len(commits) :
            /\ OnBranch(c, head)
            /\ PushedBuild \in Range(BuildsAt(c)) => PushedBuild \in Range(BuildsAt(head))

\* The build_numbers of a list are pairwise distinct.
UniqueNumbers(list) ==
    \A i, j \in 1..Len(list) : list[i].build_number = list[j].build_number => i = j

\* Every build of the new builds.json that had an entry under data/ in the
\* base commit has that entry, with its sha, in the new commit.
KeptArtifactsStay ==
    LET base == commits[locals.baseCommit].tree
        new == commits[head].tree
        list == Parse(new.builds_json.content)
    IN \A i \in 1..Len(list) :
           DataItem(list[i].build_number) \in base.data.tree =>
               DataItem(list[i].build_number) \in new.data.tree

Pruned == pc = "done" /\ ~dryRun /\ locals.removedBuilds # <<>>

PipelineInit ==
    /\ builds = <<>>
    /\ clock = NowDay0 * ONE_DAY
    /\ now = clock
    /\ kept = <<>>
    /\ removed = <<>>
    /\ calls = 0
    /\ prevNow = now
    /\ prevKept = <<>>
    /\ prevRemoved = <<>>
    /\ threw = FALSE
    /\ dryRun = FALSE
    /\ pc = "idle"
    /\ head = 0
    /\ commits = <<>>
    /\ requests = <<>>
    /\ reads = <<>>
    /\ failures = <<>>
    /\ attempt = NoAttempt
    /\ locals = NoLocals
    /\ workspace = NoWorkspace
    /\ \E rs \in ReleaseLists : env = [releases |-> rs, token |-> "value"]

\* The workflow's pull run, followed by the commit of what it wrote.
PullStep == PullRun(FALSE)

\* A whole prune run on the branch: builds.json becomes the kept list and the
\* data/ entries named like a removed build go, unless nothing is removed.
PruneStep ==
    LET existingBuilds == getExistingBuilds(workspace)
        result == applyRetentionPolicy(existingBuilds, clock)
    IN  /\ workspace.builds.present
        /\ ~applyRetentionPolicyThrows(existingBuilds)
        /\ dryRun' = FALSE
        /\ pc' = "pruned"
        /\ locals' = [locals EXCEPT !.existingBuilds = existingBuilds,
                                    !.keptBuilds = result.kept,
                                    !.removedBuilds = result.removed]
        /\ workspace' =
               IF Len(result.removed) = 0 THEN workspace
               ELSE [workspace EXCEPT
                        !.builds = [present |-> TRUE, text |-> Stringify(result.kept)],
                        !.files = {f \in @ : f \notin RemovedBuildNumbers(result.removed)}]
        /\ UNCHANGED engineVars
        /\ UNCHANGED <<head, commits, requests, reads, failures, attempt, clock, env>>

PipelineNext == PullStep \/ PruneStep \/ NextDay

PipelineSpec == PipelineInit /\ [][PipelineNext]_vars

\* C28 as stated: a build that the latest prune run removed from builds.json
\* is not listed in builds.json again, whatever pull runs follow.
C28_RemovedStaysRemoved ==
    \A i \in 1..Len(locals.removedBuilds) :
        locals.removedBuilds[i].build_number
            \notin BuildNumbers(getExistingBuilds(workspace))

\* builds.json lists the builds newest first by created_at.
NewestFirst(list) ==
    \A i \in 1..Len(list) - 1 :
        CreatedKey(list[i].created_at) >= CreatedKey(list[i + 1].created_at)

\* C29 as stated: after any sequence of successful pull and prune runs
\* builds.json lists the builds newest first by created_at.
C29_NewestFirst ==
    NewestFirst(getExistingBuilds(workspace))

(***************************************************************************)
(* Postprocessing of one build directory: its .json files are replaced by  *)
(* their Brotli streams, and a .compressed marker records that it is done. *)
(* workspace.json[f] is the number of Brotli layers around file f.         *)
(***************************************************************************)

\* The layers of one file are capped.
MaxLayers == 3

\* brotli -t succeeds on a Brotli stream, whatever the stream holds.
isCompressed(layers) == layers >= 1

\* compressJsonFiles: ok[f] tells whether brotli produced f.br.
compressJsonFiles(json, dry, force, ok) ==
    [f \in JsonFiles |->
        IF ~force /\ isCompressed(json[f]) THEN json[f]
        ELSE IF dry THEN json[f]
        ELSE IF ok[f] THEN json[f] + 1
        ELSE json[f]]

\* if (jsonFiles.length === 0) return false; every file passes isCompressed
allJsonCompressed(json) ==
    /\ JsonFiles # {}
    /\ \A f \in JsonFiles : isCompressed(json[f])

\* The JSON part of the postprocess loop for one build directory.
Postprocess ==
    \E dry \in BOOLEAN, force \in BOOLEAN, ok \in [JsonFiles -> BOOLEAN] :
        /\ \A f \in JsonFiles : workspace.json[f] < MaxLayers
        /\ dryRun' = dry
        /\ pc' = "postprocessed"
        /\ workspace' =
               IF ~force /\ workspace.marker THEN workspace
               ELSE LET json == compressJsonFiles(workspace.json, dry, force, ok)
                    IN [workspace EXCEPT
                           !.json = json,
                           !.marker = IF ~dry /\ allJsonCompressed(json) THEN TRUE ELSE @]
        /\ UNCHANGED engineVars
        /\ UNCHANGED <<head, commits, requests, reads, failures, attempt, locals, clock, env>>

\* compressJsonFiles called on its own.
CompressOnly ==
    \E dry \in BOOLEAN, force \in BOOLEAN, ok \in [JsonFiles -> BOOLEAN] :
        /\ \A f \in JsonFiles : workspace.json[f] < MaxLayers
        /\ dryRun' = dry
        /\ pc' = "compressed"
        /\ workspace' =
               [workspace EXCEPT !.json = compressJsonFiles(@, dry, force, ok)]
        /\ UNCHANGED engineVars
        /\ UNCHANGED <<head, commits, requests, reads, failures, attempt, locals, clock, env>>

\* A build directory as the pull run leaves it: plain JSON, no marker.
CompressInit ==
    /\ PipelineInit
    /\ env.releases = <<>>

CompressNext == Postprocess \/ CompressOnly

CompressSpec == CompressInit /\ [][CompressNext]_vars

\* C30 as stated: whatever runs were made, with or without --force, no .json
\* file is compressed more than once, and the marker is there only if every
\* .json file is compressed.
C30_CompressedOnce ==
    /\ \A f \in JsonFiles : workspace.json[f] <= 1
    /\ workspace.marker => \A f \in JsonFiles : workspace.json[f] >= 1

====
